---- MODULE Spec2Model ----
(***************************************************************************)
(* Model of cogs/graphs.py (TLE-Lite): the data pipeline behind the plot   *)
(* commands -- peak-prefix extraction (max_prefix), the running-mean       *)
(* smoother (_running_mean, _plot_average), the submission classifier      *)
(* (_classify_submissions), the rating histogram (_rating_hist), the       *)
(* centile command, the flow of the plot commands rating, solved, hist,    *)
(* curve and scatter from the fetched records to the sent chart, and       *)
(* these commands running as cooperative tasks of one event loop that      *)
(* share pyplot's figures.                                                 *)
(*                                                                         *)
(* Python floats are kept as exact fractions [num, den] in lowest terms;   *)
(* the IEEE rounding of a quotient is not modelled.  A Python exception is *)
(* recorded in the variable error and ends the run of the function.        *)
(***************************************************************************)
EXTENDS Integers, Sequences, FiniteSets, TLC

VARIABLES
    pc,                 \* position of the running function
    error,              \* the exception raised, "none" while there is none
    \* Graphs.rating.max_prefix
    user, max_rate, res, pos,
    \* _running_mean, _plot_average
    practice, bin_size, rm_res,
    mean_sub_timestamps, mean_sub_times, mean_ratings, plotted,
    \* _classify_submissions
    submissions, solved_by_type, sub_pos,
    \* Graphs.centile
    all_ratings, sorted_ratings, n_ratings, perc, nomarker, infos, info_pos, users_to_mark,
    zoom,               \* the +zoom flag
    lookups,            \* the awaited calls to the handle resolver and the Codeforces API
    figures,            \* pyplot's figures (process-wide), each the set of its artists;
                        \* the last one is the current figure
    discord_file,       \* the captured image, <<>> while there is none
    sent,               \* the images given to ctx.send
    \* Graphs._rating_hist
    ratings_arg, mode, binsize, ratings, bins, colors, height, rating_pos,
    cent, x, label, l, r,
    \* the plot commands rating, solved, hist, curve and scatter
    command,            \* which of them runs
    peak,               \* the +peak flag of rating
    handles,            \* the resolved handles
    filt,               \* the SubFilter: its date bounds dlo, dhi
    phase_days,         \* phase_days= of hist
    now,                \* the clock, seconds since the epoch
    fetched,            \* the answers of the Codeforces API, one per awaited call
    resp,               \* rating: the filtered rating changes of every handle
    all_solved_subs,    \* the filtered submissions of every handle
    plot_data,          \* the series given to the plotting calls
    phase_cnt, hist_range, hist_bins,   \* hist: what is passed to plt.hist
    \* rendering requests running as tasks of one event loop
    running,            \* the task the event loop is running, 0 when it runs none
    task_cmd,           \* the command of every task
    task_pc,            \* the position of every task in its command
    task_nomarker,      \* centile: the +nomarker flag of every task
    task_ratings,       \* centile: the sorted ratings every task took from the cache
    task_marked,        \* centile: the users every task marks
    task_error,         \* the exception that ended every task, "none" if none
    task_file,          \* the image every task captured, <<>> while there is none
    task_sent           \* the image every task sent, <<>> while there is none

peakVars == <<user, max_rate, res, pos>>
smoothVars == <<practice, bin_size, rm_res,
                mean_sub_timestamps, mean_sub_times, mean_ratings, plotted>>
classifyVars == <<submissions, solved_by_type, sub_pos>>
centileVars == <<all_ratings, sorted_ratings, n_ratings, perc, nomarker, infos, info_pos,
                 users_to_mark, zoom, lookups, figures, discord_file, sent>>
histVars == <<ratings_arg, mode, binsize, ratings, bins, colors, height, rating_pos,
              cent, x, label, l, r>>
plotVars == <<command, peak, handles, filt, phase_days, now, fetched, resp,
              all_solved_subs, plot_data, phase_cnt, hist_range, hist_bins>>
taskVars == <<running, task_cmd, task_pc, task_nomarker, task_ratings, task_marked,
              task_error, task_file, task_sent>>
vars == <<pc, error, peakVars, smoothVars, classifyVars, centileVars, histVars, plotVars,
          taskVars>>

notPeak == <<smoothVars, classifyVars, centileVars, histVars, plotVars, taskVars>>
notSmooth == <<peakVars, classifyVars, centileVars, histVars, plotVars, taskVars>>
notClassify == <<peakVars, smoothVars, centileVars, histVars, plotVars, taskVars>>
notCentile == <<peakVars, smoothVars, classifyVars, histVars, plotVars, taskVars>>
notHist == <<peakVars, smoothVars, classifyVars, centileVars, plotVars, taskVars>>
\* the plot commands draw on pyplot's figures and send the image as centile does
notPlot == <<peakVars, smoothVars, classifyVars, histVars,
             all_ratings, sorted_ratings, n_ratings, perc, nomarker, infos, info_pos,
             users_to_mark, zoom, taskVars>>
\* the tasks share pyplot's figures and the cache of all ratings, and nothing else
notTask == <<pc, error, peakVars, smoothVars, classifyVars, histVars, plotVars,
             sorted_ratings, n_ratings, perc, nomarker, infos, info_pos, users_to_mark,
             zoom, lookups, discord_file, sent>>

-----------------------------------------------------------------------------
(* Bounds of the model *)

MaxChanges == 3         \* longest rating-change sequence given to max_prefix
MaxPoints == 4          \* most (time, rating) points given to the smoother
MaxBin == 5             \* largest smoothing window
MaxSubs == 4            \* most submissions given to the classifier
MaxPop == 4             \* largest rating population of the cache
MaxHandles == 1         \* most users marked by centile
MaxRatings == 2         \* most ratings given to the rating histogram

-----------------------------------------------------------------------------
(* Generic helpers *)

\* the initial definitions of the variables of functions that do not run
IdleSmoothVars ==
    /\ practice = <<>>
    /\ bin_size = 1
    /\ rm_res = <<>>
    /\ mean_sub_timestamps = <<>>
    /\ mean_sub_times = <<>>
    /\ mean_ratings = <<>>
    /\ plotted = <<>>

IdleClassifyVars ==
    /\ submissions = <<>>
    /\ solved_by_type = <<>>
    /\ sub_pos = 0

IdleCentileVars ==
    /\ all_ratings = <<>>
    /\ sorted_ratings = <<>>
    /\ n_ratings = 0
    /\ perc = <<>>
    /\ nomarker = FALSE
    /\ infos = <<>>
    /\ info_pos = 0
    /\ users_to_mark = <<>>
    /\ zoom = FALSE
    /\ lookups = <<>>
    /\ figures = <<>>
    /\ discord_file = <<>>
    /\ sent = <<>>

IdleHistVars ==
    /\ ratings_arg = <<>>
    /\ mode = "normal"
    /\ binsize = 100
    /\ ratings = <<>>
    /\ bins = 0
    /\ colors = <<>>
    /\ height = <<>>
    /\ rating_pos = 0
    /\ cent = <<>>
    /\ x = <<>>
    /\ label = <<>>
    /\ l = 0
    /\ r = 0

IdlePlotVars ==
    /\ command = "none"
    /\ peak = FALSE
    /\ handles = <<>>
    /\ filt = [dlo |-> 0, dhi |-> 0]
    /\ phase_days = 1
    /\ now = 0
    /\ fetched = <<>>
    /\ resp = <<>>
    /\ all_solved_subs = <<>>
    /\ plot_data = <<>>
    /\ phase_cnt = 0
    /\ hist_range = <<0, 0>>
    /\ hist_bins = 0

IdleTaskVars ==
    /\ running = 0
    /\ task_cmd = <<>>
    /\ task_pc = <<>>
    /\ task_nomarker = <<>>
    /\ task_ratings = <<>>
    /\ task_marked = <<>>
    /\ task_error = <<>>
    /\ task_file = <<>>
    /\ task_sent = <<>>

RECURSIVE SeqsUpTo(_, _)
\* all sequences over S of length 0..n
SeqsUpTo(S, n) ==
    IF n <= 0 THEN {<<>>}
    ELSE LET shorter == SeqsUpTo(S, n - 1)
         IN shorter \cup {Append(s, e) : s \in {t \in shorter : Len(t) = n - 1}, e \in S}

\* Python's  [v] * k : the empty list when k <= 0
ListRepeat(v, k) == IF k <= 0 THEN <<>> ELSE [i \in 1..k |-> v]

\* whether s[i] of Python raises IndexError
OutOfRange(s, i) == i >= Len(s) \/ i < -Len(s)

\* s[i] of Python, i counted from 0, a negative i from the end
PyItem(s, i) == IF i < 0 THEN s[i + Len(s) + 1] ELSE s[i + 1]


RECURSIVE GCD(_, _)
GCD(a, b) == IF b = 0 THEN a ELSE GCD(b, a % b)

Abs(a) == IF a < 0 THEN -a ELSE a

\* a Python float, as the fraction n/d (d > 0) in lowest terms
Rat(n, d) ==
    LET g == GCD(Abs(n), d)
    IN  [num |-> n \div g, den |-> d \div g]

RatAdd(a, b) == Rat(a.num * b.den + b.num * a.den, a.den * b.den)
RatSub(a, b) == Rat(a.num * b.den - b.num * a.den, a.den * b.den)
RatDivInt(a, k) == Rat(a.num, a.den * k)
RatMulInt(a, k) == Rat(a.num * k, a.den)

\* Python's round(n / d) for d > 0: to the nearest integer, a tie to the even one
RoundHalfEven(n, d) ==
    LET q == n \div d
        twice == 2 * (n % d)
    IN  IF twice < d THEN q
        ELSE IF twice > d THEN q + 1
        ELSE IF q % 2 = 0 THEN q ELSE q + 1

-----------------------------------------------------------------------------
(* Graphs.rating.max_prefix *)

OldRatings == {0, 1400, 1600}
NewRatings == {1400, 1550, 1600}

\* a rating change as the Codeforces API returns it; records of a user are in
\* time order, the k-th one carries update time k
RatingChange(k, o, n) ==
    [oldRating |-> o, newRating |-> n, ratingUpdateTimeSeconds |-> k]

RatingHistories ==
    {[k \in 1..Len(s) |-> RatingChange(k, s[k][1], s[k][2])] :
        s \in SeqsUpTo(OldRatings \X NewRatings, MaxChanges)}

EffectiveOldRatingNoBaseline(data) == data.oldRating

\* old_rating = data.oldRating; if old_rating == 0: old_rating = 1500
EffectiveOldRating(data) ==
    IF data.oldRating = 0 THEN 1500 ELSE data.oldRating

KeepIgnoringMax(data, mr) == data.newRating - EffectiveOldRating(data) >= 0

KeepStrictGain(data, mr) ==
    /\ data.newRating - EffectiveOldRating(data) > 0
    /\ data.newRating >= mr

\* if data.newRating - old_rating >= 0 and data.newRating >= max_rate
Keep(data, mr) ==
    /\ data.newRating - EffectiveOldRating(data) >= 0
    /\ data.newRating >= mr

InitPeakVars ==
    /\ user \in RatingHistories
    /\ max_rate = 0
    /\ res = <<>>
    /\ pos = 0

IdlePeakVars ==
    /\ user = <<>>
    /\ max_rate = 0
    /\ res = <<>>
    /\ pos = 0

\* max_rate = 0; res = []
MaxPrefixCall ==
    /\ pc = "max_prefix"
    /\ max_rate' = 0
    /\ res' = <<>>
    /\ pos' = 1
    /\ pc' = "max_prefix_loop"
    /\ UNCHANGED <<user, error>>
    /\ UNCHANGED notPeak

\* one iteration of  for data in user
MaxPrefixStep ==
    /\ pc = "max_prefix_loop"
    /\ pos <= Len(user)
    /\ LET data == user[pos]
       IN IF Keep(data, max_rate)
          THEN /\ max_rate' = data.newRating
               /\ res' = Append(res, data)
          ELSE UNCHANGED <<max_rate, res>>
    /\ pos' = pos + 1
    /\ UNCHANGED <<pc, user, error>>
    /\ UNCHANGED notPeak

\* return(res)
MaxPrefixReturn ==
    /\ pc = "max_prefix_loop"
    /\ pos > Len(user)
    /\ pc' = "max_prefix_done"
    /\ UNCHANGED <<user, max_rate, res, pos, error>>
    /\ UNCHANGED notPeak

InitPeak ==
    /\ pc = "max_prefix"
    /\ error = "none"
    /\ InitPeakVars
    /\ IdleSmoothVars
    /\ IdleClassifyVars
    /\ IdleCentileVars
    /\ IdleHistVars
    /\ IdlePlotVars
    /\ IdleTaskVars

NextPeak ==
    \/ MaxPrefixCall
    \/ MaxPrefixStep
    \/ MaxPrefixReturn

SpecPeak == InitPeak /\ [][NextPeak]_vars

(* Claims about max_prefix *)

\* strictly increasing index maps 1..m -> 1..n
IncreasingMaps(m, n) ==
    {f \in [1..m -> 1..n] : \A a, b \in 1..m : a < b => f[a] < f[b]}

\* out picks elements of inp at strictly increasing positions
IsSubsequence(out, inp) ==
    \E f \in IncreasingMaps(Len(out), Len(inp)) :
        \A j \in 1..Len(out) : out[j] = inp[f[j]]

NonDecreasingRatings(s) ==
    \A j \in 1..(Len(s) - 1) : s[j].newRating <= s[j + 1].newRating

\* C1: the output of max_prefix is an order-preserving subsequence of its input
\* (each output element is an input element, taken at strictly increasing
\* positions, so none twice) and its newRating values never decrease from one
\* output element to the next.
C1_PeakSubsequenceNonDecreasing ==
    pc = "max_prefix_done" =>
        /\ IsSubsequence(res, user)
        /\ NonDecreasingRatings(res)

\* a finished run that kept at least two changes and dropped at least one
C1_Witness ==
    /\ pc = "max_prefix_done"
    /\ Len(res) >= 2
    /\ Len(res) < Len(user)

\* the keep condition in the words of the claim
ClaimKeeps(data, mr) ==
    LET effective_old_rating == IF data.oldRating = 0 THEN 1500 ELSE data.oldRating
    IN  /\ data.newRating - effective_old_rating >= 0
        /\ data.newRating >= mr

\* C2: the loop starts with max_rate = 0 and visits the changes in order; each
\* iteration keeps the change iff new - effective_old >= 0 and new >= max_rate
\* (effective_old is 1500 when oldRating is 0), and max_rate becomes newRating
\* exactly when the change is kept, else it stays as it was.
C2_KeepIffCondition ==
    /\ [](pc = "max_prefix_loop" /\ pos = 1 => max_rate = 0 /\ res = <<>>)
    /\ [][pc = "max_prefix_loop" /\ pos <= Len(user) =>
            /\ pos' = pos + 1
            /\ IF ClaimKeeps(user[pos], max_rate)
               THEN res' = Append(res, user[pos]) /\ max_rate' = user[pos].newRating
               ELSE res' = res /\ max_rate' = max_rate]_vars

\* the first change has oldRating 0 and newRating below 1500, and was dropped
C2_Witness ==
    /\ pc = "max_prefix_loop"
    /\ pos = 2
    /\ user[1].oldRating = 0
    /\ user[1].newRating < 1500
    /\ res = <<>>

\* the three changes of the example: (0,1400), (1400,1600), (1600,1550)
ExampleHistory ==
    <<RatingChange(1, 0, 1400), RatingChange(2, 1400, 1600), RatingChange(3, 1600, 1550)>>

\* C3 as stated: on the example max_prefix keeps the first two changes and drops
\* the third.
C3_ExampleKeepsFirstTwo ==
    pc = "max_prefix_done" /\ user = ExampleHistory =>
        res = <<ExampleHistory[1], ExampleHistory[2]>>

\* C3 amended: on the example max_prefix keeps only the second change; the first
\* is dropped (1400 - 1500 < 0 with the baseline 1500 for oldRating 0) and the
\* third is dropped (1550 - 1600 < 0).
C3_ExampleKeepsSecondOnly ==
    pc = "max_prefix_done" /\ user = ExampleHistory =>
        res = <<ExampleHistory[2]>>

\* max_prefix has returned on the example
C3_Witness ==
    /\ pc = "max_prefix_done"
    /\ user = ExampleHistory

-----------------------------------------------------------------------------
(* _running_mean and _plot_average *)

\* microseconds in a second: the resolution of datetime
Micro == 1000 * 1000

\* dt.datetime.fromtimestamp(t) of a float t (a fraction of seconds): the instant
\* rounded half-even to whole microseconds
FromTimestamp(t) ==
    LET total == RoundHalfEven(t.num * Micro, t.den)
    IN  [sec |-> total \div Micro, usec |-> total % Micro]

\* sub_time.timestamp(): the instant as float seconds
Timestamp(d) == Rat(d.sec * Micro + d.usec, Micro)

\* the points scatter hands to _plot_average: extract_time_and_rating pairs
\* fromtimestamp(creationTimeSeconds) with problem.rating
Point(creationTimeSeconds, rating) ==
    <<FromTimestamp(Rat(creationTimeSeconds, 1)), rating>>

PointPool == {Point(1, 1000), Point(2, 1100), Point(4, 1200), Point(7, 1300)}

RECURSIVE CumSumAt(_, _)
\* cum_sum[i] of _running_mean: cum_sum[0] = 0, cum_sum[i + 1] = x[i] + cum_sum[i]
CumSumAt(xs, i) ==
    IF i <= 0 THEN Rat(0, 1) ELSE RatAdd(xs[i], CumSumAt(xs, i - 1))

\* the list cum_sum: cum_sum[i] of the code is CumSum(x)[i + 1]
CumSum(xs) == [k \in 1..(Len(xs) + 1) |-> CumSumAt(xs, k - 1)]

RunningMeanLengthShort(n, b) == n - b

\* the length of res:  [0] * (n - bin_size + 1)
RunningMeanLength(n, b) == n - b + 1

WindowSumShort(cum_sum, i, b) == RatSub(cum_sum[i + 1], cum_sum[i - b + 2])

\* cum_sum[i] - cum_sum[i - bin_size]
WindowSum(cum_sum, i, b) == RatSub(cum_sum[i + 1], cum_sum[i - b + 1])

\* _running_mean(x, bin_size), x a list of numbers xs; res[i - bin_size] of the
\* code is element i - bin_size + 1 here
RunningMean(xs, b) ==
    LET n == Len(xs)
        cum_sum == CumSum(xs)
        res0 == ListRepeat(Rat(0, 1), RunningMeanLength(n, b))
    IN  [j \in DOMAIN res0 |->
            IF j + b - 1 \in b..n
            THEN RatDivInt(WindowSum(cum_sum, j + b - 1, b), b)
            ELSE res0[j]]

PlotAverageGuardAtLeast(p, b) == Len(p) >= b

\* if len(practice) > bin_size
PlotAverageGuard(p, b) == Len(p) > b

InitSmoothVars ==
    /\ practice \in SeqsUpTo(PointPool, MaxPoints)
    /\ bin_size \in 1..MaxBin
    /\ rm_res = <<>>
    /\ mean_sub_timestamps = <<>>
    /\ mean_sub_times = <<>>
    /\ mean_ratings = <<>>
    /\ plotted = <<>>

\* _running_mean applied to the value axis of the points, for any window
RunningMeanApply ==
    /\ pc = "smooth"
    /\ rm_res' = RunningMean([i \in 1..Len(practice) |-> Rat(practice[i][2], 1)], bin_size)
    /\ pc' = "running_mean_done"
    /\ UNCHANGED <<error, practice, bin_size,
                   mean_sub_timestamps, mean_sub_times, mean_ratings, plotted>>
    /\ UNCHANGED notSmooth

\* _plot_average(practice, bin_size)
PlotAverage ==
    /\ pc = "smooth"
    /\ IF PlotAverageGuard(practice, bin_size)
       THEN LET sub_times == [i \in 1..Len(practice) |-> practice[i][1]]
                rating_values == [i \in 1..Len(practice) |-> Rat(practice[i][2], 1)]
                sub_timestamps == [i \in 1..Len(sub_times) |-> Timestamp(sub_times[i])]
                means == RunningMean(sub_timestamps, bin_size)
                mean_times == [i \in 1..Len(means) |-> FromTimestamp(means[i])]
                mean_values == RunningMean(rating_values, bin_size)
            IN  /\ mean_sub_timestamps' = means
                /\ mean_sub_times' = mean_times
                /\ mean_ratings' = mean_values
                /\ plotted' = Append(plotted, [x |-> mean_times, y |-> mean_values])
       ELSE UNCHANGED <<mean_sub_timestamps, mean_sub_times, mean_ratings, plotted>>
    /\ pc' = "plot_average_done"
    /\ UNCHANGED <<error, practice, bin_size, rm_res>>
    /\ UNCHANGED notSmooth

InitSmooth ==
    /\ pc = "smooth"
    /\ error = "none"
    /\ InitSmoothVars
    /\ IdlePeakVars
    /\ IdleClassifyVars
    /\ IdleCentileVars
    /\ IdleHistVars
    /\ IdlePlotVars
    /\ IdleTaskVars

NextSmooth ==
    \/ RunningMeanApply
    \/ PlotAverage

SpecSmooth == InitSmooth /\ [][NextSmooth]_vars

(* Claims about the smoother *)

\* the sum of s[a..b], added up directly
RECURSIVE RangeSum(_, _, _)
RangeSum(s, a, b) == IF a > b THEN 0 ELSE s[a] + RangeSum(s, a + 1, b)

RatingAxis == [i \in 1..Len(practice) |-> practice[i][2]]
\* the time axis in whole seconds (every pooled instant is a whole second)
SecondAxis == [i \in 1..Len(practice) |-> practice[i][1].sec]

\* C4: for 1 <= w <= len(x) _running_mean returns exactly len(x) - w + 1 values,
\* and for w > len(x) it returns the empty list, without raising.
C4_RunningMeanLength ==
    pc = "running_mean_done" =>
        /\ error = "none"
        /\ (1 <= bin_size /\ bin_size <= Len(practice)
                => Len(rm_res) = Len(practice) - bin_size + 1)
        /\ (bin_size > Len(practice) => rm_res = <<>>)

\* _running_mean returned for a window as long as the input: one value
C4_Witness ==
    /\ pc = "running_mean_done"
    /\ Len(practice) >= 2
    /\ bin_size = Len(practice)
    /\ Len(rm_res) = 1

\* C5: when the number of points is at most the window (equal included),
\* _plot_average computes no averaged point, plots nothing and raises nothing.
C5_NoSmoothingAtOrBelowWindow ==
    pc = "plot_average_done" /\ Len(practice) <= bin_size =>
        /\ error = "none"
        /\ plotted = <<>>
        /\ mean_sub_timestamps = <<>>
        /\ mean_sub_times = <<>>
        /\ mean_ratings = <<>>

\* _plot_average returned for exactly as many points as the window
C5_Witness ==
    /\ pc = "plot_average_done"
    /\ Len(practice) >= 2
    /\ Len(practice) = bin_size
    /\ plotted = <<>>

\* C6: element i of the running mean times w equals the sum of the w inputs
\* x[i..i+w-1]; in _plot_average the time axis and the value axis are averaged
\* over the same window, so point i of both averages the same w input points.
C6_WindowMean ==
    /\ pc = "running_mean_done" /\ bin_size <= Len(practice) =>
          \A i \in 1..(Len(practice) - bin_size + 1) :
              RatMulInt(rm_res[i], bin_size)
                  = Rat(RangeSum(RatingAxis, i, i + bin_size - 1), 1)
    /\ pc = "plot_average_done" /\ bin_size < Len(practice) =>
          /\ Len(mean_ratings) = Len(practice) - bin_size + 1
          /\ Len(mean_sub_timestamps) = Len(mean_ratings)
          /\ \A i \in 1..Len(mean_ratings) :
              /\ RatMulInt(mean_ratings[i], bin_size)
                    = Rat(RangeSum(RatingAxis, i, i + bin_size - 1), 1)
              /\ RatMulInt(mean_sub_timestamps[i], bin_size)
                    = Rat(RangeSum(SecondAxis, i, i + bin_size - 1), 1)
          /\ plotted = <<[x |-> mean_sub_times, y |-> mean_ratings]>>

\* the example of the specification: four points 1000, 1100, 1200, 1300 with
\* window 2 give the value means 1050, 1150, 1250
C6_Witness ==
    /\ pc = "plot_average_done"
    /\ RatingAxis = <<1000, 1100, 1200, 1300>>
    /\ bin_size = 2
    /\ mean_ratings = <<Rat(1050, 1), Rat(1150, 1), Rat(1250, 1)>>
    /\ mean_sub_timestamps = <<Rat(3, 2), Rat(3, 1), Rat(11, 2)>>

-----------------------------------------------------------------------------
(* _classify_submissions *)

\* cf.Party.PARTICIPANT_TYPES: the participation types of the data model
PARTICIPANT_TYPES == {"CONTESTANT", "OUT_OF_COMPETITION", "VIRTUAL", "PRACTICE"}

\* a submission; id tells apart submissions of the same type
Submission(id, t) == [id |-> id, author |-> [participantType |-> t]]

SubmissionLists ==
    {[k \in 1..Len(s) |-> Submission(k, s[k])] : s \in SeqsUpTo(PARTICIPANT_TYPES, MaxSubs)}

EmptyPartitionNoPractice == [sub_type \in PARTICIPANT_TYPES \ {"PRACTICE"} |-> <<>>]

\* {sub_type: [] for sub_type in cf.Party.PARTICIPANT_TYPES}
EmptyPartition == [sub_type \in PARTICIPANT_TYPES |-> <<>>]

FilePrepended(by_type, submission) ==
    [by_type EXCEPT ![submission.author.participantType] = <<submission>> \o @]

\* solved_by_type[submission.author.participantType].append(submission)
FileSubmission(by_type, submission) ==
    [by_type EXCEPT ![submission.author.participantType] = Append(@, submission)]

InitClassifyVars ==
    /\ submissions \in SubmissionLists
    /\ solved_by_type = <<>>
    /\ sub_pos = 0

\* solved_by_type = {sub_type: [] ...}
ClassifyCall ==
    /\ pc = "classify"
    /\ solved_by_type' = EmptyPartition
    /\ sub_pos' = 1
    /\ pc' = "classify_loop"
    /\ UNCHANGED <<error, submissions>>
    /\ UNCHANGED notClassify

\* one iteration of  for submission in submissions ; a type that is no key of the
\* dict raises KeyError
ClassifyStep ==
    /\ pc = "classify_loop"
    /\ sub_pos <= Len(submissions)
    /\ LET submission == submissions[sub_pos]
       IN IF submission.author.participantType \in DOMAIN solved_by_type
          THEN /\ solved_by_type' = FileSubmission(solved_by_type, submission)
               /\ sub_pos' = sub_pos + 1
               /\ UNCHANGED <<pc, error>>
          ELSE /\ error' = "KeyError"
               /\ pc' = "raised"
               /\ UNCHANGED <<solved_by_type, sub_pos>>
    /\ UNCHANGED submissions
    /\ UNCHANGED notClassify

\* return solved_by_type
ClassifyReturn ==
    /\ pc = "classify_loop"
    /\ sub_pos > Len(submissions)
    /\ pc' = "classify_done"
    /\ UNCHANGED <<error, submissions, solved_by_type, sub_pos>>
    /\ UNCHANGED notClassify

InitClassify ==
    /\ pc = "classify"
    /\ error = "none"
    /\ InitClassifyVars
    /\ IdlePeakVars
    /\ IdleSmoothVars
    /\ IdleCentileVars
    /\ IdleHistVars
    /\ IdlePlotVars
    /\ IdleTaskVars

NextClassify ==
    \/ ClassifyCall
    \/ ClassifyStep
    \/ ClassifyReturn

SpecClassify == InitClassify /\ [][NextClassify]_vars

(* Claims about the classifier *)

OfType(t) == LET Is(sub) == sub.author.participantType = t
             IN  SelectSeq(submissions, Is)

\* C7: classification never fails; the mapping returned has a key for every known
\* participant type, the list of a type holds exactly the submissions of that
\* type in their input order (so each submission is in one list, once), and an
\* empty input gives an empty list for every type.
C7_ClassifierPartitions ==
    /\ error = "none"
    /\ pc = "classify_done" =>
          /\ DOMAIN solved_by_type = PARTICIPANT_TYPES
          /\ \A t \in PARTICIPANT_TYPES : solved_by_type[t] = OfType(t)
          /\ \A k \in 1..Len(submissions) :
                Cardinality({<<t, j>> \in PARTICIPANT_TYPES \X (1..Len(submissions)) :
                                 /\ j <= Len(solved_by_type[t])
                                 /\ solved_by_type[t][j] = submissions[k]}) = 1
          /\ (submissions = <<>> => \A t \in PARTICIPANT_TYPES : solved_by_type[t] = <<>>)

\* a finished classification of submissions of two types, one of them with two
\* submissions that another type's submission separates in the input
C7_Witness ==
    /\ pc = "classify_done"
    /\ Len(submissions) >= 3
    /\ submissions[1].author.participantType = "PRACTICE"
    /\ submissions[2].author.participantType = "VIRTUAL"
    /\ submissions[3].author.participantType = "PRACTICE"
    /\ Len(solved_by_type["PRACTICE"]) >= 2

-----------------------------------------------------------------------------
(* Graphs.centile: the percentile of the marked users *)

PopulationRatings == {900, 1000, 1200, 1400}
\* what cf.user.info reports of a user: rated is FALSE when info.rating is None
InfoRatings ==
    {[rated |-> TRUE, rating |-> v] : v \in {800, 1200, 1300}}
        \cup {[rated |-> FALSE, rating |-> 0]}

\* the answer of cf.user.info for distinct handles (list(set(handles)))
InfoLists ==
    {[k \in 1..Len(s) |-> [handle |-> k, rated |-> s[k].rated, rating |-> s[k].rating]] :
        s \in SeqsUpTo(InfoRatings, MaxHandles)}

\* v put into the sorted list s, behind the elements not greater than it
Insert(s, v) ==
    LET m == Cardinality({i \in 1..Len(s) : s[i] <= v})
    IN  SubSeq(s, 1, m) \o <<v>> \o SubSeq(s, m + 1, Len(s))

RECURSIVE SortedTo(_, _)
\* the first k elements of s, sorted
SortedTo(s, k) == IF k <= 0 THEN <<>> ELSE Insert(SortedTo(s, k - 1), s[k])

\* sorted(ratings)
Sorted(s) == SortedTo(s, Len(s))

RECURSIVE BisectRightFrom(_, _, _, _)
BisectRightFrom(a, v, lo, hi) ==
    IF lo < hi
    THEN LET mid == (lo + hi) \div 2
         IN  IF v < a[mid + 1]
             THEN BisectRightFrom(a, v, lo, mid)
             ELSE BisectRightFrom(a, v, mid + 1, hi)
    ELSE lo

BisectRight(a, v) == BisectRightFrom(a, v, 0, Len(a))

RECURSIVE BisectLeftFrom(_, _, _, _)
\* the loop of bisect.bisect_left: a[mid] of Python is a[mid + 1] here
BisectLeftFrom(a, v, lo, hi) ==
    IF lo < hi
    THEN LET mid == (lo + hi) \div 2
         IN  IF a[mid + 1] < v
             THEN BisectLeftFrom(a, v, mid + 1, hi)
             ELSE BisectLeftFrom(a, v, lo, mid)
    ELSE lo

\* bisect.bisect_left(ratings, info.rating)
BisectLeft(a, v) == BisectLeftFrom(a, v, 0, Len(a))

\* an artist of a figure: drawn by request by (0: an earlier command), for the
\* marked user of (0: for none)
Artist(by, what, of) == [by |-> by, what |-> what, of |-> of]

\* plt.clf(): the current figure (made if there is none) loses its artists
Clf(figs) ==
    IF figs = <<>> THEN <<{}>> ELSE [figs EXCEPT ![Len(figs)] = {}]

\* plt.subplots(1): a new figure, which becomes the current one
Subplots(figs) == Append(figs, {})

\* plotting calls add artists to the current figure
Draw(figs, artists) == [figs EXCEPT ![Len(figs)] = @ \cup artists]

\* gc.get_current_figure_as_file(): the image of the current figure
GetCurrentFigureAsFile(figs) == figs[Len(figs)]

\* the percentile curve and the rank rectangles of centile
CentileCurve(by) == {Artist(by, "curve", 0), Artist(by, "rank_patches", 0)}

\* the annotation and the red dot of every marked user, and the tick lines
CentileMarks(by, marked) ==
    {Artist(by, "marker", h) : h \in DOMAIN marked} \cup {Artist(by, "tick_lines", 0)}

InitCentileVars ==
    /\ all_ratings \in SeqsUpTo(PopulationRatings, MaxPop)
    /\ nomarker \in BOOLEAN
    /\ infos \in InfoLists
    /\ sorted_ratings = <<>>
    /\ n_ratings = 0
    /\ perc = <<>>
    /\ info_pos = 0
    /\ users_to_mark = <<>>
    /\ zoom \in BOOLEAN
    /\ lookups = <<>>
    /\ figures \in {<<>>, <<{Artist(0, "line", 0)}>>}
    /\ discord_file = <<>>
    /\ sent = <<>>

\* ratings = np.array(sorted(ratings)); n = len(ratings); perc = 100*np.arange(n)/n
\* (an empty array divided by 0 is an empty array); users_to_mark = {}
CentilePrepare ==
    /\ pc = "centile"
    /\ sorted_ratings' = Sorted(all_ratings)
    /\ n_ratings' = Len(all_ratings)
    /\ perc' = [i \in 1..Len(all_ratings) |-> Rat(100 * (i - 1), Len(all_ratings))]
    /\ users_to_mark' = <<>>
    /\ info_pos' = 1
    /\ pc' = IF nomarker THEN "centile_plot" ELSE "centile_lookup"
    /\ UNCHANGED <<error, all_ratings, nomarker, infos>>
    /\ UNCHANGED <<zoom, lookups, figures, discord_file, sent>>
    /\ UNCHANGED notCentile

\* the handles are resolved and their infos fetched: two awaited calls to
\* collaborators (infos holds the answer of cf.user.info)
CentileLookup ==
    /\ pc = "centile_lookup"
    /\ lookups' = lookups \o <<"resolve_handles", "user.info">>
    /\ pc' = "centile_mark"
    /\ UNCHANGED <<error, all_ratings, sorted_ratings, n_ratings, perc, nomarker, infos,
                   info_pos, users_to_mark, zoom, figures, discord_file, sent>>
    /\ UNCHANGED notCentile

\* one iteration of  for info in infos
CentileMarkStep ==
    /\ pc = "centile_mark"
    /\ info_pos <= Len(infos)
    /\ LET info == infos[info_pos]
       IN IF ~info.rated
          THEN /\ error' = "GraphCogError"
               /\ pc' = "raised"
               /\ UNCHANGED <<users_to_mark, info_pos>>
          ELSE IF Len(sorted_ratings) = 0
          THEN \* 100*ix/len(ratings) divides by zero
               /\ error' = "ZeroDivisionError"
               /\ pc' = "raised"
               /\ UNCHANGED <<users_to_mark, info_pos>>
          ELSE LET ix == BisectLeft(sorted_ratings, info.rating)
                   centile_of_ix == Rat(100 * ix, Len(sorted_ratings))
               IN  /\ users_to_mark' =
                        [h \in DOMAIN users_to_mark \cup {info.handle} |->
                            IF h = info.handle THEN <<info.rating, centile_of_ix>>
                            ELSE users_to_mark[h]]
                   /\ info_pos' = info_pos + 1
                   /\ UNCHANGED <<pc, error>>
    /\ UNCHANGED <<all_ratings, sorted_ratings, n_ratings, perc, nomarker, infos>>
    /\ UNCHANGED <<zoom, lookups, figures, discord_file, sent>>
    /\ UNCHANGED notCentile

\* the loop over infos is over: on to the plot
CentileMarked ==
    /\ pc = "centile_mark"
    /\ info_pos > Len(infos)
    /\ pc' = "centile_plot"
    /\ UNCHANGED <<error, centileVars>>
    /\ UNCHANGED notCentile

\* the plot, from plt.clf() to the captured file, with no await in between
CentilePlot ==
    /\ pc = "centile_plot"
    /\ LET drawn == Draw(Subplots(Clf(figures)), CentileCurve(1))
           zoomed == users_to_mark # <<>> /\ zoom
       IN IF ~zoomed /\ OutOfRange(sorted_ratings, 0)
          THEN \* xmin, xmax = ratings[0], ratings[-1]  of an empty array
               /\ error' = "IndexError"
               /\ pc' = "raised"
               /\ figures' = drawn
               /\ UNCHANGED discord_file
          ELSE LET marked == Draw(drawn, CentileMarks(1, users_to_mark))
               IN  /\ figures' = marked
                   /\ discord_file' = <<GetCurrentFigureAsFile(marked)>>
                   /\ pc' = "centile_send"
                   /\ UNCHANGED error
    /\ UNCHANGED <<all_ratings, sorted_ratings, n_ratings, perc, nomarker, infos,
                   info_pos, users_to_mark, zoom, lookups, sent>>
    /\ UNCHANGED notCentile

\* await ctx.send(embed=embed, file=discord_file)
CentileSend ==
    /\ pc = "centile_send"
    /\ sent' = Append(sent, discord_file[1])
    /\ pc' = "centile_done"
    /\ UNCHANGED <<error, all_ratings, sorted_ratings, n_ratings, perc, nomarker, infos,
                   info_pos, users_to_mark, zoom, lookups, figures, discord_file>>
    /\ UNCHANGED notCentile

InitCentile ==
    /\ pc = "centile"
    /\ error = "none"
    /\ InitCentileVars
    /\ IdlePeakVars
    /\ IdleSmoothVars
    /\ IdleClassifyVars
    /\ IdleHistVars
    /\ IdlePlotVars
    /\ IdleTaskVars

NextCentile ==
    \/ CentilePrepare
    \/ CentileLookup
    \/ CentileMarkStep
    \/ CentileMarked
    \/ CentilePlot
    \/ CentileSend

SpecCentile == InitCentile /\ [][NextCentile]_vars

(* Claims about the percentile *)

\* how many ratings of the population are strictly below v
StrictlyBelow(v) == Cardinality({i \in 1..Len(all_ratings) : all_ratings[i] < v})

\* C10: with a non-empty population, the percentile recorded for a marked user
\* of rating v is 100 * (number of population ratings strictly less than v) /
\* (population size), whether v is in the population or not, the index being the
\* leftmost insertion point of v in the sorted population; querying 1200 in
\* [900, 1000, 1200, 1400] gives 50.
C10_PercentileStrictlyBelow ==
    /\ \A h \in DOMAIN users_to_mark :
          /\ Len(all_ratings) > 0
          /\ users_to_mark[h][1] = infos[h].rating
          /\ users_to_mark[h][2]
                = Rat(100 * StrictlyBelow(infos[h].rating), Len(all_ratings))
          /\ \A i \in 1..Len(sorted_ratings) :
                (sorted_ratings[i] < infos[h].rating)
                    <=> (i <= StrictlyBelow(infos[h].rating))
    /\ \A h \in DOMAIN users_to_mark :
          sorted_ratings = <<900, 1000, 1200, 1400>> /\ infos[h].rating = 1200
              => users_to_mark[h][2] = Rat(50, 1)

\* the example: 1200 was looked up in the population [900, 1000, 1200, 1400],
\* which the cache held in another order
C10_Witness ==
    /\ all_ratings = <<1400, 900, 1200, 1000>>
    /\ sorted_ratings = <<900, 1000, 1200, 1400>>
    /\ 1 \in DOMAIN users_to_mark
    /\ users_to_mark[1] = <<1200, Rat(50, 1)>>

(* Claims about the empty population *)

\* the errors the cog reports to the user as such (cog_command_error)
TypedErrors == {"GraphCogError", "ResolveHandleError", "FilterError"}

\* C11: when the rating population is empty, the centile command ends with a
\* typed error and has done nothing else by then: no user was looked up or
\* marked, no figure holds anything drawn by the command, and no image was
\* captured or sent.
C11_EmptyPopulationFailsFast ==
    (Len(all_ratings) = 0 /\ pc \in {"raised", "centile_done"}) =>
        /\ pc = "raised"
        /\ error \in TypedErrors
        /\ lookups = <<>>
        /\ users_to_mark = <<>>
        /\ \A i \in 1..Len(figures) : \A a \in figures[i] : a.by # 1
        /\ discord_file = <<>>
        /\ sent = <<>>

-----------------------------------------------------------------------------
(* Graphs._rating_hist *)

\* cf.RATED_RANKS: the rating tiers, contiguous, in ascending order
RATED_RANKS ==
    <<[low |-> -1000000000, high |-> 1200, color_embed |-> "newbie"],
      [low |-> 1200, high |-> 1400, color_embed |-> "pupil"],
      [low |-> 1400, high |-> 1600, color_embed |-> "specialist"],
      [low |-> 1600, high |-> 1900, color_embed |-> "expert"],
      [low |-> 1900, high |-> 2100, color_embed |-> "candidate master"],
      [low |-> 2100, high |-> 2300, color_embed |-> "master"],
      [low |-> 2300, high |-> 2400, color_embed |-> "international master"],
      [low |-> 2400, high |-> 2600, color_embed |-> "grandmaster"],
      [low |-> 2600, high |-> 3000, color_embed |-> "international grandmaster"],
      [low |-> 3000, high |-> 1000000000, color_embed |-> "legendary grandmaster"]>>

HistRatings == {-1, 0, 120, 1500, 3899, 3900}
HistModes == {"normal", "log", "linear"}
HistBinSizes == {100, 50, 30}

Max(a, b) == IF a >= b THEN a ELSE b
Min(a, b) == IF a <= b THEN a ELSE b

\* len(range(a, b, step)) for step > 0
RangeLen(a, b, step) == IF b <= a THEN 0 ELSE (b - a + step - 1) \div step

\* bins = 39*100//binsize
Bins(bs) == (39 * 100) \div bs

RECURSIVE Colors(_, _, _, _)
\* colors after the ranks k.. of  for rank in cf.RATED_RANKS: for r in range(...)
Colors(k, low, high, bs) ==
    IF k > Len(RATED_RANKS) THEN <<>>
    ELSE LET rank == RATED_RANKS[k]
         IN  ListRepeat(rank.color_embed,
                        RangeLen(Max(rank.low, low), Min(rank.high, high), bs))
                \o Colors(k + 1, low, high, bs)

RECURSIVE SumTo(_, _)
\* the sum of the first k elements of s
SumTo(s, k) == IF k <= 0 THEN 0 ELSE s[k] + SumTo(s, k - 1)

\* sum(height)
SumSeq(s) == SumTo(s, Len(s))

\* cent = [0]; for h in height: csum += h; cent.append(round(100 * csum / users)):
\* csum is the sum of the buckets counted so far
Cent(h) ==
    [k \in 1..(Len(h) + 1) |->
        IF k = 1 THEN 0 ELSE RoundHalfEven(100 * SumTo(h, k - 1), SumSeq(h))]

\* s[a:b] of Python, a and b counted from 0, negative ones from the end
PySlice(s, a, b) ==
    LET len == Len(s)
        lo == IF a < 0 THEN Max(a + len, 0) ELSE Min(a, len)
        hi == IF b < 0 THEN Max(b + len, 0) ELSE Min(b, len)
    IN  SubSeq(s, lo + 1, hi)

TrimmedOpen(s, lo, hi) == PySlice(s, lo, hi)

\* s[l:r+1]
Trimmed(s, lo, hi) == PySlice(s, lo, hi + 1)

InitHistVars ==
    /\ ratings_arg \in SeqsUpTo(HistRatings, MaxRatings)
    /\ mode \in HistModes
    /\ binsize \in HistBinSizes
    /\ ratings = ratings_arg
    /\ bins = 0
    /\ colors = <<>>
    /\ height = <<>>
    /\ rating_pos = 0
    /\ cent = <<>>
    /\ x = <<>>
    /\ label = <<>>
    /\ l = 0
    /\ r = 0

\* lines 418-434: the checks of the arguments, bins, colors and the empty height
RatingHistSetup ==
    /\ pc = "rating_hist"
    /\ LET kept == LET NonNegative(v) == v >= 0 IN SelectSeq(ratings, NonNegative)
           cols == Colors(1, 0, binsize * Bins(binsize), binsize)
       IN  IF mode \notin {"log", "normal"}
           THEN /\ error' = "GraphCogError"
                /\ pc' = "raised"
                /\ UNCHANGED <<ratings, bins, colors, height, rating_pos>>
           ELSE IF kept = <<>> \/ 100 % binsize # 0
           THEN /\ error' = "AssertionError"
                /\ pc' = "raised"
                /\ ratings' = kept
                /\ UNCHANGED <<bins, colors, height, rating_pos>>
           ELSE IF Len(cols) # Bins(binsize)
           THEN /\ error' = "AssertionError"
                /\ pc' = "raised"
                /\ ratings' = kept
                /\ bins' = Bins(binsize)
                /\ colors' = cols
                /\ UNCHANGED <<height, rating_pos>>
           ELSE /\ ratings' = kept
                /\ bins' = Bins(binsize)
                /\ colors' = cols
                /\ height' = ListRepeat(0, Bins(binsize))
                /\ rating_pos' = 1
                /\ pc' = "hist_count"
                /\ UNCHANGED error
    /\ UNCHANGED <<ratings_arg, mode, binsize, cent, x, label, l, r>>
    /\ UNCHANGED notHist

\* one iteration of  for r in ratings: height[r // binsize] += 1
RatingHistCount ==
    /\ pc = "hist_count"
    /\ rating_pos <= Len(ratings)
    /\ LET ix == ratings[rating_pos] \div binsize
       IN  IF OutOfRange(height, ix)
           THEN /\ error' = "IndexError"
                /\ pc' = "raised"
                /\ UNCHANGED <<height, rating_pos>>
           ELSE /\ height' = [height EXCEPT ![ix + 1] = @ + 1]
                /\ rating_pos' = rating_pos + 1
                /\ UNCHANGED <<pc, error>>
    /\ UNCHANGED <<ratings_arg, mode, binsize, ratings, bins, colors, cent, x, label, l, r>>
    /\ UNCHANGED notHist

\* lines 438-448: cent, x, label and the start of the trimming
RatingHistCent ==
    /\ pc = "hist_count"
    /\ rating_pos > Len(ratings)
    /\ LET cents == Cent(height)
           lows == [k \in 1..bins |-> (k - 1) * binsize]
       IN  /\ cent' = cents
           /\ x' = lows
           \* zip(x, cent) stops at the shorter of the two
           /\ label' = [k \in 1..Min(Len(lows), Len(cents)) |-> <<lows[k], cents[k]>>]
    /\ l' = 0
    /\ r' = bins - 1
    /\ pc' = "hist_trim_left"
    /\ UNCHANGED <<error, ratings_arg, mode, binsize, ratings, bins, colors, height,
                   rating_pos>>
    /\ UNCHANGED notHist

\* while not height[l]: l += 1
RatingHistTrimLeft ==
    /\ pc = "hist_trim_left"
    /\ IF OutOfRange(height, l)
       THEN error' = "IndexError" /\ pc' = "raised" /\ UNCHANGED l
       ELSE IF PyItem(height, l) = 0
       THEN l' = l + 1 /\ UNCHANGED <<pc, error>>
       ELSE pc' = "hist_trim_right" /\ UNCHANGED <<l, error>>
    /\ UNCHANGED <<ratings_arg, mode, binsize, ratings, bins, colors, height, rating_pos,
                   cent, x, label, r>>
    /\ UNCHANGED notHist

\* while not height[r]: r -= 1
RatingHistTrimRight ==
    /\ pc = "hist_trim_right"
    /\ IF OutOfRange(height, r)
       THEN error' = "IndexError" /\ pc' = "raised" /\ UNCHANGED r
       ELSE IF PyItem(height, r) = 0
       THEN r' = r - 1 /\ UNCHANGED <<pc, error>>
       ELSE pc' = "hist_slice" /\ UNCHANGED <<r, error>>
    /\ UNCHANGED <<ratings_arg, mode, binsize, ratings, bins, colors, height, rating_pos,
                   cent, x, label, l>>
    /\ UNCHANGED notHist

\* lines 451-455: the five lists cut to l..r
RatingHistSlice ==
    /\ pc = "hist_slice"
    /\ x' = Trimmed(x, l, r)
    /\ cent' = Trimmed(cent, l, r)
    /\ label' = Trimmed(label, l, r)
    /\ colors' = Trimmed(colors, l, r)
    /\ height' = Trimmed(height, l, r)
    /\ pc' = "hist_done"
    /\ UNCHANGED <<error, ratings_arg, mode, binsize, ratings, bins, rating_pos, l, r>>
    /\ UNCHANGED notHist

InitHist ==
    /\ pc = "rating_hist"
    /\ error = "none"
    /\ InitHistVars
    /\ IdlePeakVars
    /\ IdleSmoothVars
    /\ IdleClassifyVars
    /\ IdleCentileVars
    /\ IdlePlotVars
    /\ IdleTaskVars

NextHist ==
    \/ RatingHistSetup
    \/ RatingHistCount
    \/ RatingHistCent
    \/ RatingHistTrimLeft
    \/ RatingHistTrimRight
    \/ RatingHistSlice

\* _rating_hist awaits nothing before it has cut the lists: once the trimming has
\* begun, each of its steps is taken
SpecHist ==
    /\ InitHist
    /\ [][NextHist]_vars
    /\ WF_vars(RatingHistTrimLeft)
    /\ WF_vars(RatingHistTrimRight)
    /\ WF_vars(RatingHistSlice)

(* Claims about the rating histogram *)

\* how many of the ratings given lie in bucket i: [i*binsize, (i+1)*binsize)
BucketCount(i) ==
    Cardinality({k \in 1..Len(ratings_arg) :
                    /\ i * binsize <= ratings_arg[k]
                    /\ ratings_arg[k] < (i + 1) * binsize})

\* how many of the ratings given lie in [low, high) = [0, binsize * bins)
InRangeCount ==
    Cardinality({k \in 1..Len(ratings_arg) :
                    0 <= ratings_arg[k] /\ ratings_arg[k] < binsize * Bins(binsize)})

\* how many of the ratings given lie in [0, v)
BelowCount(v) ==
    Cardinality({k \in 1..Len(ratings_arg) : 0 <= ratings_arg[k] /\ ratings_arg[k] < v})

\* C8: for a histogram that can be drawn (a valid mode, a bin size dividing 100,
\* some rating that is not negative), no error is raised whatever the ratings
\* are: those below low or at/above high are dropped silently; once all ratings
\* are counted, bucket i holds the number of ratings in
\* [i*binsize, (i+1)*binsize) and the buckets sum to the number of ratings
\* inside [low, high).
C8_HistogramCountsInRange ==
    (/\ mode \in {"log", "normal"}
     /\ 100 % binsize = 0
     /\ \E k \in 1..Len(ratings_arg) : ratings_arg[k] >= 0)
    =>  /\ error = "none"
        /\ pc = "hist_trim_left" =>
              /\ Len(height) = Bins(binsize)
              /\ \A i \in 0..(Bins(binsize) - 1) : height[i + 1] = BucketCount(i)
              /\ SumSeq(height) = InRangeCount

NonEmptyBuckets == {i \in 0..(Bins(binsize) - 1) : BucketCount(i) > 0}
FirstNonEmpty == CHOOSE i \in NonEmptyBuckets : \A j \in NonEmptyBuckets : i <= j
LastNonEmpty == CHOOSE i \in NonEmptyBuckets : \A j \in NonEmptyBuckets : j <= i

\* the colour of the tier that holds rating v
RankColor(v) ==
    LET k == CHOOSE k \in 1..Len(RATED_RANKS) :
                 RATED_RANKS[k].low <= v /\ v < RATED_RANKS[k].high
    IN  RATED_RANKS[k].color_embed

\* what the trimming leaves: the buckets l..r, first to last non-empty one, and
\* the five lists aligned bucket by bucket
TrimmedToNonEmptyRun ==
    /\ l = FirstNonEmpty
    /\ r = LastNonEmpty
    /\ Len(height) = r - l + 1
    /\ Len(x) = Len(height)
    /\ Len(cent) = Len(height)
    /\ Len(label) = Len(height)
    /\ Len(colors) = Len(height)
    /\ height[1] > 0
    /\ height[Len(height)] > 0
    /\ \A j \in 1..Len(height) :
          /\ height[j] = BucketCount(l + j - 1)
          /\ x[j] = (l + j - 1) * binsize
          /\ cent[j] = RoundHalfEven(100 * BelowCount(x[j]), InRangeCount)
          /\ label[j] = <<x[j], cent[j]>>
          /\ colors[j] = RankColor(x[j])

\* C9: once the buckets are counted (at least one is then non-empty) the
\* trimming terminates, and it leaves exactly the run of buckets from the first
\* non-empty one to the last non-empty one: both ends have a count > 0, empty
\* buckets between them stay, and lower bounds, cumulative percents, labels,
\* colours and counts are cut with the same indices.
C9_TrimKeepsNonEmptyRun ==
    /\ [](pc = "hist_done" => TrimmedToNonEmptyRun)
    /\ (pc = "hist_trim_left" ~> pc = "hist_done")

\* a trimmed histogram with empty buckets in front, behind and inside the run
C9_Witness ==
    /\ pc = "hist_done"
    /\ l > 0
    /\ r < bins - 1
    /\ Len(height) > 2
    /\ \E j \in 2..(Len(height) - 1) : height[j] = 0

-----------------------------------------------------------------------------
(* The plot commands rating, solved, hist, curve and scatter *)

MaxPlotHandles == 2     \* most handles given to a plot command

Commands == {"rating", "solved", "hist", "curve", "scatter"}

\* dt.timedelta(days=1), in seconds
DaySeconds == 24 * 60 * 60

\* the times of the records the API reports, in time order: noon of day 0,
\* midnight of day 1, midnight and noon of day 2 (local time zone at offset 0)
RecordTimes ==
    <<DaySeconds \div 2, DaySeconds, 2 * DaySeconds, 2 * DaySeconds + DaySeconds \div 2>>

\* the clock: noon of day 2, midnight of day 4
Clocks == {2 * DaySeconds + DaySeconds \div 2, 4 * DaySeconds}

\* the upper date bound of the filter: the epoch, midnight of day 1, noon of
\* day 2, and a time far ahead (no d< given)
FilterHighs == {0, DaySeconds, 2 * DaySeconds + DaySeconds \div 2, 10 * DaySeconds}

\* the lists picked out of RecordTimes by position, in time order
TimeLists ==
    LET Tagged(m) == [k \in 1..Len(RecordTimes) |-> [keep |-> m[k], time |-> RecordTimes[k]]]
        Kept(e) == e.keep
        Pick(m) == LET kept == SelectSeq(Tagged(m), Kept)
                   IN  [k \in 1..Len(kept) |-> kept[k].time]
    IN  {Pick(m) : m \in [1..Len(RecordTimes) -> BOOLEAN]}

\* a solved submission as the API reports it
PlotSubmission(time, type) ==
    [id |-> time, creationTimeSeconds |-> time,
     author |-> [participantType |-> type], problem |-> [rating |-> 1200]]

\* the submissions of a handle, all of participant type type
SubmissionsOfType(type) ==
    {[k \in 1..Len(times) |-> PlotSubmission(times[k], type)] : times \in TimeLists}

\* the submissions of the handle of scatter, of two participant types
ScatterSubmissions ==
    {[k \in 1..Len(times) |-> PlotSubmission(times[k], types[k])] :
        times \in {t \in TimeLists : Len(t) <= 2}, types \in [1..2 -> {"CONTESTANT", "PRACTICE"}]}

\* the rating changes of a handle: a first rated contest below the baseline
\* (0 -> 1400) and a gain (1400 -> 1600), at the record times
PlotRatingChanges ==
    {[k \in 1..Len(times) |->
        RatingChange(times[k], changes[k][1], changes[k][2])] :
        times \in {t \in TimeLists : Len(t) <= 2},
        changes \in [1..2 -> {<<0, 1400>>, <<1400, 1600>>}]}

\* the temporal filter: a record is retained iff its time lies in [dlo, dhi]
InDates(time, f) == f.dlo <= time /\ time <= f.dhi

\* filt.filter_rating_changes(rating_changes)
FilterRatingChanges(rating_changes, f) ==
    LET Retained(change) == InDates(change.ratingUpdateTimeSeconds, f)
    IN  SelectSeq(rating_changes, Retained)

\* filt.filter_subs(submissions)
FilterSubs(subs, f) ==
    LET Retained(sub) == InDates(sub.creationTimeSeconds, f)
    IN  SelectSeq(subs, Retained)

\* filt.types: every participant type, when no type flag is given
FiltTypes == <<"CONTESTANT", "OUT_OF_COMPETITION", "VIRTUAL", "PRACTICE">>

\* Python's any() of a list of lists
AnyNonEmpty(lists) == \E i \in 1..Len(lists) : lists[i] # <<>>

RECURSIVE MaxPrefixTo(_, _)
\* max_prefix after the first k changes of u
MaxPrefixTo(u, k) ==
    IF k <= 0 THEN [max_rate |-> 0, res |-> <<>>]
    ELSE LET before == MaxPrefixTo(u, k - 1)
         IN  IF Keep(u[k], before.max_rate)
             THEN [max_rate |-> u[k].newRating, res |-> Append(before.res, u[k])]
             ELSE before

\* max_prefix(user)
MaxPrefix(u) == MaxPrefixTo(u, Len(u)).res

RECURSIVE ClassifyTo(_, _)
\* _classify_submissions after the first k submissions
ClassifyTo(subs, k) ==
    IF k <= 0 THEN EmptyPartition
    ELSE FileSubmission(ClassifyTo(subs, k - 1), subs[k])

\* _classify_submissions(submissions)
ClassifySubmissions(subs) == ClassifyTo(subs, Len(subs))

\* [f(sub) for sub in solved_by_type[sub_type]] for sub_type in filt.types
ByType(subs) ==
    LET by_type == ClassifySubmissions(subs)
    IN  [k \in 1..Len(FiltTypes) |-> by_type[FiltTypes[k]]]

\* datetime.date() as the number of the day
Date(time) == time \div DaySeconds

\* math.ceil(a / b) for b > 0
Ceil(a, b) == -((-a) \div b)

\* the creation times of all the lists of all_times, chained
ChainedTimes(all_times) ==
    UNION {{all_times[i][j].creationTimeSeconds : j \in 1..Len(all_times[i])} :
              i \in 1..Len(all_times)}

\* min(itertools.chain.from_iterable(all_times)).date()
Dlo(all_times) ==
    Date(CHOOSE t \in ChainedTimes(all_times) : \A u \in ChainedTimes(all_times) : t <= u)

\* min(dt.datetime.today() + dt.timedelta(days=1), dt.datetime.fromtimestamp(filt.dhi)).date()
Dhi(clock, f) == Date(Min(clock + DaySeconds, f.dhi))

\* math.ceil((dhi - dlo) / phase_time), the dates in days
PhaseCnt(dhi, dlo, days) == Ceil(dhi - dlo, days)

\* range=(dhi - phase_cnt * phase_time, dhi), in days
PhaseRange(dhi, cnt, days) == <<dhi - cnt * days, dhi>>

\* bins=min(40, phase_cnt)  for one handle, min(40 // len(handles), phase_cnt) for more
PhaseBins(n, cnt) == IF n = 1 THEN Min(40, cnt) ELSE Min(40 \div n, cnt)

MaxPhaseDays == 2       \* largest phase_days= given to hist

InitPlotVars ==
    /\ command \in Commands
    /\ peak \in (IF command = "rating" THEN BOOLEAN ELSE {FALSE})
    /\ handles \in {[k \in 1..n |-> k] :
                      n \in 1..(IF command = "scatter" THEN 1 ELSE MaxPlotHandles)}
    /\ filt \in {[dlo |-> 0, dhi |-> h] : h \in FilterHighs}
    /\ phase_days \in (IF command = "hist" THEN 0..MaxPhaseDays ELSE {1})
    /\ now \in (IF command \in {"hist", "curve"} THEN Clocks ELSE {4 * DaySeconds})
    /\ fetched = <<>>
    /\ resp = <<>>
    /\ all_solved_subs = <<>>
    /\ plot_data = <<>>
    /\ phase_cnt = 0
    /\ hist_range = <<0, 0>>
    /\ hist_bins = 0

\* what the API may answer to the calls of the command
Answers ==
    CASE command = "rating" -> [1..Len(handles) -> PlotRatingChanges]
      [] command = "scatter" ->
            {<<changes, subs>> : changes \in PlotRatingChanges, subs \in ScatterSubmissions}
      [] OTHER -> [1..Len(handles) -> SubmissionsOfType("PRACTICE")]

\* the arguments are checked, the handles resolved and the records fetched:
\* await cf_common.resolve_handles(...), await cf.user.rating / cf.user.status
PlotFetch ==
    /\ pc = "plot"
    /\ IF command = "hist" /\ phase_days < 1
       THEN /\ error' = "GraphCogError"
            /\ pc' = "raised"
            /\ UNCHANGED <<fetched, lookups>>
       ELSE /\ fetched' \in Answers
            /\ lookups' = lookups \o <<"resolve_handles", "user.records">>
            /\ pc' = "plot_filter"
            /\ UNCHANGED error
    /\ UNCHANGED <<command, peak, handles, filt, phase_days, now, resp, all_solved_subs,
                   plot_data, phase_cnt, hist_range, hist_bins>>
    /\ UNCHANGED <<figures, discord_file, sent>>
    /\ UNCHANGED notPlot

\* the records are filtered; the command stops when no handle has any left
PlotFilter ==
    /\ pc = "plot_filter"
    /\ LET rating_resp ==
               CASE command = "rating" ->
                       [k \in 1..Len(handles) |-> FilterRatingChanges(fetched[k], filt)]
                 [] command = "scatter" -> <<FilterRatingChanges(fetched[1], filt)>>
                 [] OTHER -> <<>>
           solved ==
               CASE command = "rating" -> <<>>
                 [] command = "scatter" -> <<FilterSubs(fetched[2], filt)>>
                 [] OTHER -> [k \in 1..Len(handles) |-> FilterSubs(fetched[k], filt)]
           empty == IF command = "rating" THEN ~AnyNonEmpty(rating_resp)
                    ELSE ~AnyNonEmpty(solved)
       IN  /\ resp' = rating_resp
           /\ all_solved_subs' = solved
           /\ IF empty
              THEN error' = "GraphCogError" /\ pc' = "raised"
              ELSE pc' = "plot_draw" /\ UNCHANGED error
    /\ UNCHANGED <<command, peak, handles, filt, phase_days, now, fetched,
                   plot_data, phase_cnt, hist_range, hist_bins>>
    /\ UNCHANGED <<lookups, figures, discord_file, sent>>
    /\ UNCHANGED notPlot

\* the series a command plots, out of its filtered records
Series ==
    CASE command = "rating" ->
            \* if peak: resp = [max_prefix(user) for user in resp]
            IF peak THEN [k \in 1..Len(resp) |-> MaxPrefix(resp[k])] ELSE resp
      [] command \in {"solved", "hist"} ->
            \* by type for a single handle, by handle for several
            IF Len(handles) = 1 THEN ByType(all_solved_subs[1]) ELSE all_solved_subs
      [] command = "curve" ->
            \* timestretched = times + [min(now, fromtimestamp(filt.dhi))]
            [k \in 1..Len(all_solved_subs) |->
                [j \in 1..Len(all_solved_subs[k]) |->
                    all_solved_subs[k][j].creationTimeSeconds] \o <<Min(now, filt.dhi)>>]
      [] command = "scatter" ->
            \* practice, regular, virtual and the rating changes
            LET by_type == ClassifySubmissions(all_solved_subs[1])
            IN  <<by_type["PRACTICE"],
                  by_type["CONTESTANT"] \o by_type["OUT_OF_COMPETITION"],
                  by_type["VIRTUAL"],
                  resp[1]>>

\* the artists the plotting calls of a command put on the figure for its series
SeriesArtists(by, series) ==
    CASE command = "rating" ->
            {Artist(by, "line", k) : k \in 1..Len(series)} \cup {Artist(by, "rating_bg", 0)}
      [] command \in {"solved", "hist"} ->
            {Artist(by, "bars", k) : k \in 1..Len(series)}
      [] command = "curve" ->
            {Artist(by, "line", k) : k \in 1..Len(series)}
      [] command = "scatter" ->
            \* _plot_scatter draws the non-empty ones, _plot_average with the
            \* default bin_size 10, _plot_rating the rating line
            {Artist(by, "points", k) : k \in {j \in 1..3 : series[j] # <<>>}}
                \cup (IF PlotAverageGuard(series[1], 10) THEN {Artist(by, "average", 0)} ELSE {})
                \cup {Artist(by, "line", 4), Artist(by, "rating_bg", 0)}

\* the chart, from plt.clf() to the captured file, with no await in between
PlotDraw ==
    /\ pc = "plot_draw"
    /\ LET series == Series
           cleared == Clf(figures)
           dlo == Dlo(series)
           dhi == Dhi(now, filt)
           cnt == PhaseCnt(dhi, dlo, phase_days)
           nbins == PhaseBins(Len(handles), cnt)
           drawn == Draw(cleared, SeriesArtists(1, series))
       IN  /\ plot_data' = series
           /\ resp' = IF command = "rating" THEN series ELSE resp
           /\ IF command = "hist"
              THEN /\ phase_cnt' = cnt
                   /\ hist_range' = PhaseRange(dhi, cnt, phase_days)
                   /\ hist_bins' = nbins
              ELSE UNCHANGED <<phase_cnt, hist_range, hist_bins>>
           /\ IF command = "hist" /\ nbins < 1
              THEN \* plt.hist(..., bins=0): `bins` must be positive
                   /\ error' = "ValueError"
                   /\ pc' = "raised"
                   /\ figures' = cleared
                   /\ UNCHANGED discord_file
              ELSE /\ figures' = drawn
                   /\ discord_file' = <<GetCurrentFigureAsFile(drawn)>>
                   /\ pc' = "plot_send"
                   /\ UNCHANGED error
    /\ UNCHANGED <<command, peak, handles, filt, phase_days, now, fetched, all_solved_subs>>
    /\ UNCHANGED <<lookups, sent>>
    /\ UNCHANGED notPlot

\* await ctx.send(embed=embed, file=discord_file)
PlotSend ==
    /\ pc = "plot_send"
    /\ sent' = Append(sent, discord_file[1])
    /\ pc' = "plot_done"
    /\ UNCHANGED <<error, plotVars, lookups, figures, discord_file>>
    /\ UNCHANGED notPlot

InitPlot ==
    /\ pc = "plot"
    /\ error = "none"
    /\ InitPlotVars
    /\ IdlePeakVars
    /\ IdleSmoothVars
    /\ IdleClassifyVars
    /\ IdleCentileVars
    /\ IdleHistVars
    /\ IdleTaskVars

NextPlot ==
    \/ PlotFetch
    \/ PlotFilter
    \/ PlotDraw
    \/ PlotSend

SpecPlot == InitPlot /\ [][NextPlot]_vars

(* Claims about the empty result *)

\* the records of every handle the filter retains, once the answers are there
Retained ==
    CASE command = "rating" ->
            [k \in 1..Len(fetched) |-> FilterRatingChanges(fetched[k], filt)]
      [] command = "scatter" -> <<FilterSubs(fetched[2], filt)>>
      [] OTHER -> [k \in 1..Len(fetched) |-> FilterSubs(fetched[k], filt)]

\* the records of every handle that the chart is drawn from
RecordsToPlot == IF command = "rating" THEN resp ELSE all_solved_subs

\* when the filter retains nothing for any handle, the command raises
\* GraphCogError and no chart is drawn, captured or sent
EmptyResultRaises ==
    (fetched # <<>> /\ pc # "plot_filter" /\ ~AnyNonEmpty(Retained)) =>
        /\ pc = "raised"
        /\ error = "GraphCogError"
        /\ \A i \in 1..Len(figures) : \A a \in figures[i] : a.by # 1
        /\ discord_file = <<>>
        /\ sent = <<>>

\* a chart is sent only when some handle has a record to plot
SentOnlyWithRecords == sent # <<>> => AnyNonEmpty(RecordsToPlot)

\* C12: in rating, solved, hist, curve and scatter, when filtering leaves no
\* usable record for any requested handle the command ends with GraphCogError
\* and no chart is drawn or sent; and a chart is sent only when at least one
\* requested handle has at least one usable record to plot.
C12_EmptyResultError == EmptyResultRaises /\ SentOnlyWithRecords

(* Claims about the time bins of hist *)

\* hist has computed what it passes to plt.hist
HistComputed == command = "hist" /\ plot_data # <<>>

\* the number of bins is the stated one and at least 1
HistBinsPositive ==
    HistComputed =>
        /\ phase_cnt = Ceil(Dhi(now, filt) - Dlo(all_solved_subs), phase_days)
        /\ hist_bins = IF Len(handles) = 1 THEN Min(40, phase_cnt)
                       ELSE Min(40 \div Len(handles), phase_cnt)
        /\ hist_bins >= 1

\* the range is the stated one and contains the date of every filtered submission
HistRangeCoversDates ==
    HistComputed =>
        /\ hist_range = <<Dhi(now, filt) - phase_cnt * phase_days, Dhi(now, filt)>>
        /\ \A t \in ChainedTimes(all_solved_subs) :
              hist_range[1] <= Date(t) /\ Date(t) <= hist_range[2]

\* C14: in hist, for every phase_days >= 1, every upper date bound of the filter
\* and every non-empty set of filtered submissions, the number of bins passed to
\* plt.hist (min(40, phase_cnt) for one handle, min(40 // number of handles,
\* phase_cnt) for several, phase_cnt = ceil((dhi - dlo) / phase_time)) is at
\* least 1, and the range [dhi - phase_cnt * phase_time, dhi] contains the date
\* of every filtered submission.
C14_HistBinsAndRange == HistBinsPositive /\ HistRangeCoversDates

-----------------------------------------------------------------------------
(* Rendering requests as cooperative tasks of one event loop *)

MaxTasks == 2           \* the rendering requests in flight

Tasks == 1..MaxTasks

\* the commands of the tasks: rating and scatter (solved, hist and curve have
\* the control flow of rating) and centile
TaskCommands == {"rating", "scatter", "centile"}

SuspendsWhileDrawing(position) ==
    position \in {"start", "resolve", "fetch", "draw", "send", "done", "raised"}

\* whether a task at this position is off the event loop: it has not started,
\* it is at an await (resolve_handles, the API call, ctx.send), or it has ended
Suspends(position) ==
    position \in {"start", "resolve", "fetch", "send", "done", "raised"}

\* the event loop runs one task at a time, from one await to the next
MayStep(t) == IF Suspends(task_pc[t]) THEN running = 0 ELSE running = t

\* the task goes on to position next, and leaves the loop if it suspends there
GoTo(t, next) ==
    /\ task_pc' = [task_pc EXCEPT ![t] = next]
    /\ running' = IF Suspends(next) THEN 0 ELSE t

\* the task ends with the exception err
Raise(t, err) ==
    /\ task_error' = [task_error EXCEPT ![t] = err]
    /\ GoTo(t, "raised")

\* the artists the task puts on the figure
TaskArtists(t) ==
    CASE task_cmd[t] = "rating" -> {Artist(t, "line", 1), Artist(t, "rating_bg", 0)}
      [] task_cmd[t] = "scatter" ->
            {Artist(t, "points", 1), Artist(t, "line", 4), Artist(t, "rating_bg", 0)}
      [] task_cmd[t] = "centile" ->
            CentileCurve(t) \cup CentileMarks(t, task_marked[t])

InitTaskVars ==
    /\ running = 0
    /\ task_cmd \in [Tasks -> TaskCommands]
    /\ task_pc = [t \in Tasks |-> "start"]
    /\ task_nomarker \in {f \in [Tasks -> BOOLEAN] :
                            \A t \in Tasks : f[t] => task_cmd[t] = "centile"}
    /\ task_ratings = [t \in Tasks |-> <<>>]
    /\ task_marked = [t \in Tasks |-> <<>>]
    /\ task_error = [t \in Tasks |-> "none"]
    /\ task_file = [t \in Tasks |-> <<>>]
    /\ task_sent = [t \in Tasks |-> <<>>]

\* the command starts and runs to its first await; centile takes the ratings
\* from the cache and sorts a copy of them first
TaskStart(t) ==
    /\ MayStep(t)
    /\ task_pc[t] = "start"
    /\ IF task_cmd[t] = "centile"
       THEN /\ task_ratings' = [task_ratings EXCEPT ![t] = Sorted(all_ratings)]
            /\ GoTo(t, IF task_nomarker[t] THEN "clf" ELSE "resolve")
       ELSE /\ GoTo(t, "resolve")
            /\ UNCHANGED task_ratings
    /\ UNCHANGED <<task_cmd, task_nomarker, task_marked, task_error, task_file, task_sent>>
    /\ UNCHANGED <<all_ratings, figures>>
    /\ UNCHANGED notTask

\* await cf_common.resolve_handles(...) returns
TaskResolve(t) ==
    /\ MayStep(t)
    /\ task_pc[t] = "resolve"
    /\ GoTo(t, "fetch")
    /\ UNCHANGED <<task_cmd, task_nomarker, task_ratings, task_marked, task_error,
                   task_file, task_sent>>
    /\ UNCHANGED <<all_ratings, figures>>
    /\ UNCHANGED notTask

\* await cf.user.rating / cf.user.status / cf.user.info returns, and the command
\* goes through its records: rating and scatter raise GraphCogError when none
\* is left, centile when a user is unrated; centile divides by the size of the
\* population for every user it marks
TaskFetch(t) ==
    /\ MayStep(t)
    /\ task_pc[t] = "fetch"
    /\ \/ /\ Raise(t, "GraphCogError")
          /\ UNCHANGED task_marked
       \/ /\ task_cmd[t] = "centile"
          /\ task_ratings[t] = <<>>
          /\ Raise(t, "ZeroDivisionError")
          /\ UNCHANGED task_marked
       \/ /\ task_cmd[t] = "centile" => task_ratings[t] # <<>>
          /\ task_marked' =
                [task_marked EXCEPT ![t] = IF task_cmd[t] = "centile" THEN <<t>> ELSE <<>>]
          /\ GoTo(t, "clf")
          /\ UNCHANGED task_error
    /\ UNCHANGED <<task_cmd, task_nomarker, task_ratings, task_file, task_sent>>
    /\ UNCHANGED <<all_ratings, figures>>
    /\ UNCHANGED notTask

\* plt.clf()
TaskClf(t) ==
    /\ MayStep(t)
    /\ task_pc[t] = "clf"
    /\ figures' = Clf(figures)
    /\ GoTo(t, IF task_cmd[t] = "centile" THEN "subplots" ELSE "draw")
    /\ UNCHANGED <<task_cmd, task_nomarker, task_ratings, task_marked, task_error,
                   task_file, task_sent>>
    /\ UNCHANGED all_ratings
    /\ UNCHANGED notTask

\* centile: fig, ax = plt.subplots(1)
TaskSubplots(t) ==
    /\ MayStep(t)
    /\ task_pc[t] = "subplots"
    /\ figures' = Subplots(figures)
    /\ GoTo(t, "draw")
    /\ UNCHANGED <<task_cmd, task_nomarker, task_ratings, task_marked, task_error,
                   task_file, task_sent>>
    /\ UNCHANGED all_ratings
    /\ UNCHANGED notTask

\* the plotting calls of the command; centile, having marked no user, fails at
\* ratings[0] when the population is empty, after the curve has been drawn
TaskDraw(t) ==
    /\ MayStep(t)
    /\ task_pc[t] = "draw"
    /\ IF task_cmd[t] = "centile" /\ OutOfRange(task_ratings[t], 0)
       THEN /\ figures' = Draw(figures, CentileCurve(t))
            /\ Raise(t, "IndexError")
       ELSE /\ figures' = Draw(figures, TaskArtists(t))
            /\ GoTo(t, "capture")
            /\ UNCHANGED task_error
    /\ UNCHANGED <<task_cmd, task_nomarker, task_ratings, task_marked, task_file, task_sent>>
    /\ UNCHANGED all_ratings
    /\ UNCHANGED notTask

\* discord_file = gc.get_current_figure_as_file(), and on to await ctx.send
TaskCapture(t) ==
    /\ MayStep(t)
    /\ task_pc[t] = "capture"
    /\ task_file' = [task_file EXCEPT ![t] = <<GetCurrentFigureAsFile(figures)>>]
    /\ GoTo(t, "send")
    /\ UNCHANGED <<task_cmd, task_nomarker, task_ratings, task_marked, task_error, task_sent>>
    /\ UNCHANGED <<all_ratings, figures>>
    /\ UNCHANGED notTask

\* await ctx.send(embed=embed, file=discord_file) returns
TaskSend(t) ==
    /\ MayStep(t)
    /\ task_pc[t] = "send"
    /\ task_sent' = [task_sent EXCEPT ![t] = task_file[t]]
    /\ GoTo(t, "done")
    /\ UNCHANGED <<task_cmd, task_nomarker, task_ratings, task_marked, task_error, task_file>>
    /\ UNCHANGED <<all_ratings, figures>>
    /\ UNCHANGED notTask

\* the owner of the cache puts a new snapshot, with one more rating, in its
\* place while no task runs
CacheRefresh ==
    /\ running = 0
    /\ Len(all_ratings) < MaxPop
    /\ all_ratings' = Append(all_ratings, 1000)
    /\ UNCHANGED <<taskVars, figures>>
    /\ UNCHANGED notTask

InitRender ==
    /\ pc = "tasks"
    /\ error = "none"
    /\ InitTaskVars
    /\ all_ratings \in {<<>>, <<1200, 900>>}
    /\ figures \in {<<>>, <<{Artist(0, "line", 0)}>>}
    /\ sorted_ratings = <<>>
    /\ n_ratings = 0
    /\ perc = <<>>
    /\ nomarker = FALSE
    /\ infos = <<>>
    /\ info_pos = 0
    /\ users_to_mark = <<>>
    /\ zoom = FALSE
    /\ lookups = <<>>
    /\ discord_file = <<>>
    /\ sent = <<>>
    /\ IdlePeakVars
    /\ IdleSmoothVars
    /\ IdleClassifyVars
    /\ IdleHistVars
    /\ IdlePlotVars

NextRender ==
    \/ \E t \in Tasks :
          \/ TaskStart(t)
          \/ TaskResolve(t)
          \/ TaskFetch(t)
          \/ TaskClf(t)
          \/ TaskSubplots(t)
          \/ TaskDraw(t)
          \/ TaskCapture(t)
          \/ TaskSend(t)
    \/ CacheRefresh

SpecRender == InitRender /\ [][NextRender]_vars

(* Claims about concurrent requests *)

\* an image, once there is one, holds exactly the artists of task t
OwnImage(t, file) == file # <<>> => file[1] = TaskArtists(t)

\* what every task captured and sent is its own chart, and a task that is done
\* has sent one
ImagesOwn ==
    \A t \in Tasks :
        /\ OwnImage(t, task_file[t])
        /\ OwnImage(t, task_sent[t])
        /\ task_pc[t] = "done" => task_sent[t] # <<>>

\* a task between plt.clf() and the capture of the figure is the running one
NoSuspensionWhileDrawing ==
    \A t \in Tasks : task_pc[t] \in {"subplots", "draw", "capture"} => running = t

\* a step that changes the cached ratings is no step of a task
CacheOnlyRead ==
    all_ratings' # all_ratings =>
        /\ running = 0
        /\ UNCHANGED <<taskVars, figures>>

\* C13: rendering requests running concurrently as cooperative tasks, which
\* suspend only at awaits, never interact: under every interleaving the image a
\* request captures and sends holds exactly the series that request drew, no
\* task is suspended between plt.clf() and the capture of the figure, and the
\* tasks only read the shared ratings.
C13_RequestsDoNotInteract ==
    /\ [](ImagesOwn /\ NoSuspensionWhileDrawing)
    /\ [][CacheOnlyRead]_vars

\* a rating request has captured its chart and awaits ctx.send while a centile
\* request, which started on another snapshot of the ratings, has cleared the
\* figure, drawn on a new one and captured its own
C13_Witness ==
    /\ task_cmd[1] = "rating" /\ task_pc[1] = "send"
    /\ task_cmd[2] = "centile" /\ task_pc[2] = "send"
    /\ task_file[1] = <<TaskArtists(1)>>
    /\ task_file[2] = <<TaskArtists(2)>>
    /\ task_marked[2] # <<>>
    /\ task_ratings[2] # Sorted(all_ratings)
    /\ Len(figures) = 2

====
